---- MODULE Spec2Model ----
(***************************************************************************)
(* Model of conj.py (JMdictDB conjugator): construct(), conjugate(),       *)
(* combine_onums() and the part of read_conj_tables() that builds the      *)
(* 'conj', 'conjo' and 'conjo_notes' indices.                              *)
(*                                                                         *)
(* Text is a sequence of Unicode codepoints.  Python's None and '' are     *)
(* both falsy; for the rule fields euphr/euphk (only ever tested for       *)
(* truth and used as "euphr or ''") both are the empty sequence.  For the  *)
(* words given to conjugate() None and '' are kept apart (see Word).       *)
(***************************************************************************)
EXTENDS Integers, Sequences, FiniteSets, TLC

----------------------------------------------------------------------------
(* Bounds of the model *)

MaxLen == 3        \* longest word given to construct()
MaxStem == 3       \* largest 'stem' column value in a rule given to construct()
MaxRun == 10       \* longest contiguous run of onum values in a conjo.csv cell
MaxTrim == 2       \* largest 'stem' column value in the conjo.csv rows
MaxNoteRows == 3   \* most rows in conjo_notes.csv

----------------------------------------------------------------------------
(* Characters *)

HiraA == 12354     \* 'あ' U+3042
HiraN == 12435     \* 'ん' U+3093
LQuote == 12304    \* '【' U+3010
RQuote == 12305    \* '】' U+3011

\* Characters words are made of: 'ぁ' (one below 'あ'), 'あ', 'く', 'ん',
\* 'ゔ' (one above 'ん') and the kanji '来'.
Alphabet == {HiraA - 1, HiraA, 12367, HiraN, HiraN + 1, 26469}

OkuriTa == <<12383>>      \* "た"
EuphKo == <<12371>>       \* "こ"  (euphr of 来る -> こない)
EuphDeki == <<20986>>     \* "出"  (euphk)

RECURSIVE WordsUpTo(_)
WordsUpTo(n) ==
  IF n = 0 THEN {<< >>}
  ELSE LET W == WordsUpTo(n - 1)
       IN  W \cup {Append(w, c) : w \in {x \in W : Len(x) = n - 1}, c \in Alphabet}

----------------------------------------------------------------------------
VARIABLES
  c_txt,       \* construct(): parameter 'txt'
  c_rule,      \* construct(): parameters stem, okuri, euphr, euphk
  c_pc,        \* "idle" | "call" | "done" | "raised"
  c_iskana,    \* construct(): local 'iskana'
  c_stem,      \* construct(): local 'stem' after line 258
  c_conjtxt    \* construct(): returned 'conjtxt'

cvars == <<c_txt, c_rule, c_pc, c_iskana, c_stem, c_conjtxt>>

VARIABLES
  ct,          \* the dict returned by read_conj_tables(): conj, conjo, conjo_notes
  pc,          \* "idle" | "loaded" | "conjugated" | "raised" | "combined"
  ktxt, rtxt,  \* conjugate(): the words of the latest call
  pos,         \* conjugate(): the pos id of the latest call
  conjs,       \* the dict returned by the latest conjugate()
  newconjs,    \* combine_onums(): first component of the result
  allnotes,    \* combine_onums(): second component of the result
  used,        \* combine_onums(): list (conjs.keys()) of the dict of the latest call
  prev         \* what the combine_onums() call before the latest one, on a
               \* dict of the same content, was given and returned

evars == <<ct, pc, ktxt, rtxt, pos, conjs, newconjs, allnotes, used, prev>>
vars == <<c_txt, c_rule, c_pc, c_iskana, c_stem, c_conjtxt,
          ct, pc, ktxt, rtxt, pos, conjs, newconjs, allnotes, used, prev>>

----------------------------------------------------------------------------
(* Python helpers *)

\* s[:j] for any integer j, as Python's slice does it: a negative j counts
\* from the end, and the bound is clamped to 0..len(s).  Note -0 = 0.
PySliceTo(s, j) ==
  LET n == Len(s)
      k == IF j < 0 THEN (IF j + n < 0 THEN 0 ELSE j + n)
                    ELSE (IF j > n THEN n ELSE j)
  IN  SubSeq(s, 1, k)

\* x or '' for a string or None
OrEmpty(x) == x

\* truth value of a string or None field
Truthy(x) == x # << >>

----------------------------------------------------------------------------
(* construct(), lines 248-261.  The result is a record: whether ValueError *)
(* was raised, and otherwise the locals and the returned text.             *)

\* construct() with the euphonic fields tested by "iskana or euphr" instead of
\* per class, and the other class's field appended
construct_anyeuph(txt, stem, okuri, euphr, euphk) ==
  IF Len(txt) < 2
  THEN [raised |-> TRUE, iskana |-> FALSE, stem |-> stem, conjtxt |-> << >>]
  ELSE LET iskana == txt[Len(txt) - 1] > HiraA /\ txt[Len(txt) - 1] <= HiraN
           stem2 == IF Truthy(euphr) \/ Truthy(euphk) THEN stem + 1 ELSE stem
           conjtxt == IF iskana
                      THEN PySliceTo(txt, -stem2) \o OrEmpty(euphr) \o okuri
                      ELSE PySliceTo(txt, -stem2) \o OrEmpty(euphk) \o okuri
       IN  [raised |-> FALSE, iskana |-> iskana, stem |-> stem2, conjtxt |-> conjtxt]

\* construct() with the length guard off by one: a 1-character word goes on
\* to be rewritten (it has no next-to-last character, so it is not kana)
construct_guard1(txt, stem, okuri, euphr, euphk) ==
  IF Len(txt) < 1
  THEN [raised |-> TRUE, iskana |-> FALSE, stem |-> stem, conjtxt |-> << >>]
  ELSE LET iskana == Len(txt) >= 2 /\ txt[Len(txt) - 1] > HiraA
                                  /\ txt[Len(txt) - 1] <= HiraN
           stem2 == IF (iskana /\ Truthy(euphr)) \/ (~iskana /\ Truthy(euphk))
                    THEN stem + 1 ELSE stem
           conjtxt == IF iskana
                      THEN PySliceTo(txt, -stem2) \o OrEmpty(euphr) \o okuri
                      ELSE PySliceTo(txt, -stem2) \o OrEmpty(euphk) \o okuri
       IN  [raised |-> FALSE, iskana |-> iskana, stem |-> stem2, conjtxt |-> conjtxt]

construct(txt, stem, okuri, euphr, euphk) ==
  IF Len(txt) < 2
  THEN [raised |-> TRUE, iskana |-> FALSE, stem |-> stem, conjtxt |-> << >>]
  ELSE LET iskana == txt[Len(txt) - 1] > HiraA /\ txt[Len(txt) - 1] <= HiraN
           stem2 == IF (iskana /\ Truthy(euphr)) \/ (~iskana /\ Truthy(euphk))
                    THEN stem + 1 ELSE stem
           conjtxt == IF iskana
                      THEN PySliceTo(txt, -stem2) \o OrEmpty(euphr) \o okuri
                      ELSE PySliceTo(txt, -stem2) \o OrEmpty(euphk) \o okuri
       IN  [raised |-> FALSE, iskana |-> iskana, stem |-> stem2, conjtxt |-> conjtxt]

----------------------------------------------------------------------------
(* Python values and helpers used by conjugate() and combine_onums() *)

\* A word argument of conjugate(): None or a string.
PyNone == [none |-> TRUE, s |-> << >>]
PyStr(s) == [none |-> FALSE, s |-> s]

\* "if ktxt": None and '' are both false
WordTruthy(w) == ~w.none /\ w.s # << >>

EmptyDict == [k \in {} |-> << >>]

\* bool as the int Python compares it as
B2I(b) == IF b THEN 1 ELSE 0

KeyOrd(key, i) == IF i \in {3, 4} THEN B2I(key[i]) ELSE key[i]

\* a < b for two tuples (pos, conj, neg, fml, onum)
KeyLess(a, b) ==
  \E i \in 1..5 : /\ \A j \in 1..(i - 1) : KeyOrd(a, j) = KeyOrd(b, j)
                  /\ KeyOrd(a, i) < KeyOrd(b, i)

\* The keys iterated as the dict holds them, in insertion order (no sort)
sorted_asis(q) == q

\* sorted (conjs.keys()): q is the list of the dict's keys in insertion
\* order (no key twice); the result is in ascending order.
RECURSIVE sorted(_)
sorted(q) ==
  IF q = << >> THEN << >>
  ELSE LET i == CHOOSE x \in 1..Len(q) :
                  \A y \in (1..Len(q)) \ {x} : KeyLess(q[x], q[y])
       IN  <<q[i]>> \o sorted(SubSeq(q, 1, i - 1) \o SubSeq(q, i + 1, Len(q)))

\* str (x) for a non-negative int: its decimal digits
RECURSIVE str(_)
str(n) == IF n < 10 THEN <<48 + n>> ELSE str(n \div 10) \o <<48 + (n % 10)>>

\* sep.join (items)
RECURSIVE join(_, _)
join(sep, items) ==
  IF items = << >> THEN << >>
  ELSE IF Len(items) = 1 THEN items[1]
  ELSE items[1] \o sep \o join(sep, Tail(items))

\* [str(x) for x in notes]
StrEach(notes) == [i \in 1..Len(notes) |-> str(notes[i])]

Elems(q) == {q[i] : i \in 1..Len(q)}

----------------------------------------------------------------------------
(* read_conj_tables(), lines 315-341: the indices built from the csv rows  *)

\* ct['conjo'], line 324: a dict keyed by the first five columns.  'rows' is
\* the set of rows of conjo.csv, here with no two rows of the same key.
ConjoIndex(rows) ==
  [key \in {r.key : r \in rows} |->
     LET r == CHOOSE x \in rows : x.key = key
     IN  [stem |-> r.stem, okuri |-> r.okuri, euphr |-> r.euphr, euphk |-> r.euphk]]

\* ct['conjo_notes'], lines 330-331: a defaultdict (list); each row
\* <<key, note>> of conjo_notes.csv appends its note to the key's list.
RECURSIVE NotesIndex(_, _)
NotesIndex(rows, d) ==
  IF rows = << >> THEN d
  ELSE LET key == rows[1][1]
           old == IF key \in DOMAIN d THEN d[key] ELSE << >>
       IN  NotesIndex(Tail(rows), (key :> Append(old, rows[1][2])) @@ d)

read_conj_tables(conjids, conjorows, noterows) ==
  [conj |-> conjids,
   conjo |-> ConjoIndex(conjorows),
   conjo_notes |-> NotesIndex(noterows, EmptyDict)]

----------------------------------------------------------------------------
(* conjugate(), lines 219-246 *)

NegFml == <<<<FALSE, FALSE>>, <<FALSE, TRUE>>, <<TRUE, FALSE>>, <<TRUE, TRUE>>>>

\* range (1, 10) stops before this onum
ScanStop == 10

\* The onum values of one cell for which the loop body runs, scanning from
\* 'onum': the loop ends at the end of the range or at the first KeyError.
RECURSIVE ScanOnums(_, _, _, _, _, _)
ScanOnums(conjo, p, conj, neg, fml, onum) ==
  IF onum >= ScanStop THEN {}
  ELSE IF <<p, conj, neg, fml, onum>> \notin DOMAIN conjo THEN {}
  ELSE {onum} \cup ScanOnums(conjo, p, conj, neg, fml, onum + 1)

\* construct (txt, ...) if txt else ''
ConstructIf(w, row) ==
  IF WordTruthy(w) THEN construct(w.s, row.stem, row.okuri, row.euphr, row.euphk)
  ELSE [raised |-> FALSE, iskana |-> FALSE, stem |-> row.stem, conjtxt |-> << >>]

\* line 244
DualText(kt, rt) ==
  IF kt # << >> /\ rt # << >> THEN kt \o <<LQuote>> \o rt \o <<RQuote>>
  ELSE IF kt # << >> THEN kt ELSE rt

\* The keys conjugate() reaches for 'p', whatever the words.
ReachedKeys(p, t) ==
  UNION {{<<p, conj, NegFml[i][1], NegFml[i][2], onum>> :
            onum \in ScanOnums(t.conjo, p, conj, NegFml[i][1], NegFml[i][2], 1)} :
         conj \in t.conj, i \in 1..4}

\* The keys in the order line 245 inserts them in 'conjs': by conj id
\* ascending (line 236), then (neg, fml), then onum.
CellInserts(p, conj, i, t) ==
  LET n == Cardinality(ScanOnums(t.conjo, p, conj, NegFml[i][1], NegFml[i][2], 1))
  IN  [onum \in 1..n |-> <<p, conj, NegFml[i][1], NegFml[i][2], onum>>]

RECURSIVE InsertOrder(_, _, _)
InsertOrder(conjids, p, t) ==
  IF conjids = {} THEN << >>
  ELSE LET conj == CHOOSE x \in conjids : \A y \in conjids : x <= y
       IN  CellInserts(p, conj, 1, t) \o CellInserts(p, conj, 2, t)
           \o CellInserts(p, conj, 3, t) \o CellInserts(p, conj, 4, t)
           \o InsertOrder(conjids \ {conj}, p, t)

\* The result: raised (ValueError out of construct) or the dict 'conjs'.
conjugate(k, r, p, t) ==
  LET keys == ReachedKeys(p, t)
      kt(key) == ConstructIf(k, t.conjo[key])
      rt(key) == ConstructIf(r, t.conjo[key])
  IN  IF \E key \in keys : kt(key).raised \/ rt(key).raised
      THEN [raised |-> TRUE, conjs |-> EmptyDict]
      ELSE [raised |-> FALSE,
            conjs |-> [key \in keys |-> DualText(kt(key).conjtxt, rt(key).conjtxt)]]

----------------------------------------------------------------------------
(* combine_onums(), lines 175-195 *)

\* txt += '[' + ','.join ([str(x) for x in notes]) + ']'   (if notes)
Annotate(txt, notes) ==
  IF notes # << >> THEN txt \o <<91>> \o join(<<44>>, StrEach(notes)) \o <<93>>
  ELSE txt

\* The for loop from position i of the sorted keys; st holds newconjs,
\* allnotes and ct['conjo_notes'], which indexing a missing key extends.
\* The loop with a later variant put in front of the text merged so far
RECURSIVE CombineLoop_prepend(_, _, _, _)
CombineLoop_prepend(keys, i, cj, st) ==
  IF i > Len(keys) THEN st
  ELSE LET key == keys[i]
           cell == <<key[1], key[2], key[3], key[4]>>
           idx == IF key \in DOMAIN st.conjo_notes THEN st.conjo_notes
                  ELSE (key :> << >>) @@ st.conjo_notes
           notes == idx[key]
           txt == Annotate(cj[key], notes)
           nc == IF cell \notin DOMAIN st.newconjs
                 THEN (cell :> txt) @@ st.newconjs
                 ELSE [st.newconjs EXCEPT ![cell] = txt \o <<32, 47, 32>> \o @]
       IN  CombineLoop_prepend(keys, i + 1, cj,
                       [newconjs |-> nc,
                        allnotes |-> st.allnotes \cup Elems(notes),
                        conjo_notes |-> idx])

\* The loop with the notes collected only for the first variant of a cell
RECURSIVE CombineLoop_firstnotes(_, _, _, _)
CombineLoop_firstnotes(keys, i, cj, st) ==
  IF i > Len(keys) THEN st
  ELSE LET key == keys[i]
           cell == <<key[1], key[2], key[3], key[4]>>
           idx == IF key \in DOMAIN st.conjo_notes THEN st.conjo_notes
                  ELSE (key :> << >>) @@ st.conjo_notes
           notes == idx[key]
           txt == Annotate(cj[key], notes)
           nc == IF cell \notin DOMAIN st.newconjs
                 THEN (cell :> txt) @@ st.newconjs
                 ELSE [st.newconjs EXCEPT ![cell] = @ \o <<32, 47, 32>> \o txt]
       IN  CombineLoop_firstnotes(keys, i + 1, cj,
                       [newconjs |-> nc,
                        allnotes |-> IF cell \notin DOMAIN st.newconjs
                                     THEN st.allnotes \cup Elems(notes)
                                     ELSE st.allnotes,
                        conjo_notes |-> idx])

RECURSIVE CombineLoop(_, _, _, _)
CombineLoop(keys, i, cj, st) ==
  IF i > Len(keys) THEN st
  ELSE LET key == keys[i]
           cell == <<key[1], key[2], key[3], key[4]>>
           idx == IF key \in DOMAIN st.conjo_notes THEN st.conjo_notes
                  ELSE (key :> << >>) @@ st.conjo_notes
           notes == idx[key]
           txt == Annotate(cj[key], notes)
           nc == IF cell \notin DOMAIN st.newconjs
                 THEN (cell :> txt) @@ st.newconjs
                 ELSE [st.newconjs EXCEPT ![cell] = @ \o <<32, 47, 32>> \o txt]
       IN  CombineLoop(keys, i + 1, cj,
                       [newconjs |-> nc,
                        allnotes |-> st.allnotes \cup Elems(notes),
                        conjo_notes |-> idx])

\* A dict as combine_onums() gets it: its keys in insertion order and its
\* values.
PyDict(ks, f) == [keys |-> ks, val |-> f]

combine_onums(cj, t) ==
  CombineLoop(sorted(cj.keys), 1, cj.val,
              [newconjs |-> EmptyDict, allnotes |-> {}, conjo_notes |-> t.conjo_notes])

----------------------------------------------------------------------------
(* Inputs *)

ConstructRules ==
  [stem : 0..MaxStem, okuri : {<< >>, OkuriTa},
   euphr : {<< >>, EuphKo}, euphk : {<< >>, EuphDeki}]

PosIds == {1, 2}
ConjIds == {1, 2}

\* kanji words: None, '', '来', '来る';  kana words: None, '', 'く', 'くらう'
KWords == {PyNone, PyStr(<< >>), PyStr(<<26469>>), PyStr(<<26469, 12427>>)}
RWords == {PyNone, PyStr(<< >>), PyStr(<<12367>>), PyStr(<<12367, 12425, 12358>>)}

\* A row of conjo.csv; the okurigana of variant onum is one kana that tells
\* the variants apart.
ConjoRow(key, stem0, okuriOn, euph) ==
  [key |-> key, stem |-> stem0,
   okuri |-> IF okuriOn THEN <<12352 + key[5]>> ELSE << >>,
   euphr |-> IF euph THEN EuphKo ELSE << >>,
   euphk |-> IF euph THEN EuphDeki ELSE << >>]

\* The rows of a cell: onum 1..run, and one more after a gap if 'stray'.
CellKeys(p, conj, nf, run, stray) ==
  {<<p, conj, nf[1], nf[2], onum>> :
     onum \in (1..run) \cup (IF stray THEN {run + 2} ELSE {})}

Patterns == {{}, {NegFml[1]}, {NegFml[2], NegFml[3]}, {NegFml[i] : i \in 1..4}}
RunLens == {0, 1, 2, MaxRun - 1, MaxRun}

\* conjo.csv for the scan: pos 1 has conj 1 rows in the cells of 'pat' and
\* conj 2 rows in every cell; pos 2 has a single row.
ScanKeys(runA, stray, pat, runB) ==
  UNION {CellKeys(1, 1, nf, runA, stray) : nf \in pat}
  \cup UNION {CellKeys(1, 2, NegFml[i], runB, FALSE) : i \in 1..4}
  \cup {<<2, 2, TRUE, TRUE, 1>>}

\* conjo.csv for the merge: cells of 2, 1 and 3 variants for pos 1.
MergeKeys ==
  CellKeys(1, 1, NegFml[1], 2, FALSE) \cup CellKeys(1, 1, NegFml[3], 1, FALSE)
  \cup CellKeys(1, 2, NegFml[2], 3, FALSE) \cup {<<2, 2, TRUE, TRUE, 1>>}

\* rows conjo_notes.csv is made of
NoteRowPool ==
  {<<<<1, 1, FALSE, FALSE, 1>>, 3>>, <<<<1, 1, FALSE, FALSE, 1>>, 6>>,
   <<<<1, 1, FALSE, FALSE, 2>>, 5>>, <<<<1, 1, FALSE, FALSE, 2>>, 6>>}

RECURSIVE SeqsUpTo(_, _)
SeqsUpTo(S, n) ==
  IF n = 0 THEN {<< >>}
  ELSE LET W == SeqsUpTo(S, n - 1)
       IN  W \cup {Append(w, x) : w \in {y \in W : Len(y) = n - 1}, x \in S}

----------------------------------------------------------------------------
(* The state machine *)

ConstructIdle ==
  /\ c_txt = << >>
  /\ c_rule = [stem |-> 0, okuri |-> << >>, euphr |-> << >>, euphk |-> << >>]
  /\ c_pc = "idle"
  /\ c_iskana = FALSE
  /\ c_stem = 0
  /\ c_conjtxt = << >>

\* No combine_onums() call before the latest one / the call before it
NoPrev == [some |-> FALSE, keys |-> << >>, newconjs |-> EmptyDict, allnotes |-> {}]
Prev(ks, nc, an) == [some |-> TRUE, keys |-> ks, newconjs |-> nc, allnotes |-> an]

\* q back to front
Reversed(q) == [i \in 1..Len(q) |-> q[Len(q) + 1 - i]]

\* q with its first item moved to the end
Rotated(q) == IF q = << >> THEN q ELSE Tail(q) \o <<Head(q)>>

\* The insertion orders the dict given to combine_onums() is built in: the
\* one conjugate() leaves, the same items inserted back to front, and the
\* first item inserted last.
KeyOrders ==
  {InsertOrder(ct.conj, pos, ct), Reversed(InsertOrder(ct.conj, pos, ct)),
   Rotated(InsertOrder(ct.conj, pos, ct))}

EngineStart(table, p) ==
  /\ ct = table
  /\ pc = p
  /\ ktxt = PyNone
  /\ rtxt = PyNone
  /\ pos = 1
  /\ conjs = EmptyDict
  /\ newconjs = EmptyDict
  /\ allnotes = {}
  /\ used = << >>
  /\ prev = NoPrev

\* construct() about to be called on a word and a rule
InitConstruct ==
  /\ c_txt \in WordsUpTo(MaxLen)
  /\ c_rule \in ConstructRules
  /\ c_pc = "call"
  /\ c_iskana = FALSE
  /\ c_stem = 0
  /\ c_conjtxt = << >>
  /\ EngineStart(read_conj_tables({}, {}, << >>), "idle")

\* tables loaded from a conjo.csv with runs of variants, gaps and no notes
InitScan ==
  /\ ConstructIdle
  /\ \E runA \in RunLens, stray \in BOOLEAN, pat \in Patterns, runB \in {0, 1},
        stem0 \in 0..MaxTrim, okuriOn \in BOOLEAN, euph \in BOOLEAN :
       EngineStart(read_conj_tables(ConjIds,
                      {ConjoRow(key, stem0, okuriOn, euph) :
                         key \in ScanKeys(runA, stray, pat, runB)},
                      << >>), "loaded")

\* tables loaded from a fixed conjo.csv and any conjo_notes.csv
InitMerge ==
  /\ ConstructIdle
  /\ \E noterows \in SeqsUpTo(NoteRowPool, MaxNoteRows) :
       EngineStart(read_conj_tables(ConjIds,
                      {ConjoRow(key, 1, TRUE, FALSE) : key \in MergeKeys},
                      noterows), "loaded")

\* One call of construct() on the chosen word and rule.
Construct ==
  /\ c_pc = "call"
  /\ LET r == construct(c_txt, c_rule.stem, c_rule.okuri, c_rule.euphr, c_rule.euphk)
     IN  /\ c_pc' = IF r.raised THEN "raised" ELSE "done"
         /\ c_iskana' = r.iskana
         /\ c_stem' = r.stem
         /\ c_conjtxt' = r.conjtxt
  /\ UNCHANGED <<c_txt, c_rule>>
  /\ UNCHANGED evars

\* conjs = conjugate (ktxt, rtxt, pos, ct): a new call on the loaded tables.
\* The results of the calls before it are dropped.
Conjugate ==
  /\ pc # "idle"
  /\ \E k \in KWords, r \in RWords, p \in PosIds :
       LET res == conjugate(k, r, p, ct)
       IN  /\ ktxt' = k
           /\ rtxt' = r
           /\ pos' = p
           /\ pc' = IF res.raised THEN "raised" ELSE "conjugated"
           /\ conjs' = res.conjs
  /\ newconjs' = EmptyDict
  /\ allnotes' = {}
  /\ used' = << >>
  /\ prev' = NoPrev
  /\ UNCHANGED ct
  /\ UNCHANGED cvars

\* newconjs, allnotes = combine_onums (conjs, ct) on a dict with the items
\* conjugate() returned, built in the insertion order ks.
CombineOnums ==
  /\ pc \in {"conjugated", "combined"}
  /\ \E ks \in KeyOrders :
       LET res == combine_onums(PyDict(ks, conjs), ct)
       IN  /\ newconjs' = res.newconjs
           /\ allnotes' = res.allnotes
           /\ ct' = [ct EXCEPT !.conjo_notes = res.conjo_notes]
           /\ used' = ks
  /\ prev' = IF pc = "combined" THEN Prev(used, newconjs, allnotes) ELSE NoPrev
  /\ pc' = "combined"
  /\ UNCHANGED <<ktxt, rtxt, pos, conjs>>
  /\ UNCHANGED cvars

NextConstruct == Construct
NextConjugate == Construct \/ Conjugate
Next == Conjugate \/ CombineOnums

\* construct() alone, over every word and rule
SpecConstruct == InitConstruct /\ [][NextConstruct]_vars

\* construct() and conjugate() over the tables of the scan
SpecConjugate == (InitConstruct \/ InitScan) /\ [][NextConjugate]_vars

\* conjugate() and combine_onums() in any sequence over tables with notes
Spec == InitMerge /\ [][Next]_vars

----------------------------------------------------------------------------
(* Properties of construct() *)

\* The word with its last n characters removed; all of it when n >= len.
DropLast(w, n) == SubSeq(w, 1, IF n >= Len(w) THEN 0 ELSE Len(w) - n)

\* The euphonic text of the class construct() put the word in.
ClassEuph == IF c_iskana THEN c_rule.euphr ELSE c_rule.euphk

\* C1: for a word of at least 2 characters the result is the word with
\* exactly the effective trim length of characters removed from its end
\* (everything when the trim is at least the length, nothing when it is 0),
\* then the selected euphonic text, then okurigana; with stem 0 and no
\* euphonic fields it is word + okurigana.
C1_SuffixRewrite ==
  c_pc = "done" =>
    /\ c_conjtxt = DropLast(c_txt, c_stem) \o ClassEuph \o c_rule.okuri
    /\ (c_rule.stem = 0 /\ c_rule.euphr = << >> /\ c_rule.euphk = << >>)
         => c_conjtxt = c_txt \o c_rule.okuri

\* C2: a next-to-last character of exactly 'あ' or exactly 'ん' classifies
\* the word as kana; one codepoint below 'あ' or above 'ん' as non-kana; seen
\* in the class, in the trim increment and in the euphonic text applied.
C2_KanaBoundary ==
  c_pc = "done" =>
    LET ch == c_txt[Len(c_txt) - 1]
    IN  /\ ch \in {HiraA, HiraN} =>
             /\ c_iskana
             /\ c_stem = c_rule.stem + (IF c_rule.euphr # << >> THEN 1 ELSE 0)
        /\ ch \in {HiraA - 1, HiraN + 1} =>
             /\ ~c_iskana
             /\ c_stem = c_rule.stem + (IF c_rule.euphk # << >> THEN 1 ELSE 0)

\* C3: the effective trim is stem + 1 exactly when the word is kana and euphr
\* is present or the word is non-kana and euphk is present, and stem
\* otherwise; what stands before okurigana in the result is the euphonic
\* field of the word's own class, never the other one.  ("kana" is the class
\* construct() assigned; what is left of the word is some prefix of it.)
C3_TrimAndEuphonic ==
  c_pc = "done" =>
    /\ c_stem = IF \/ c_iskana /\ c_rule.euphr # << >>
                   \/ ~c_iskana /\ c_rule.euphk # << >>
                THEN c_rule.stem + 1 ELSE c_rule.stem
    /\ \E n \in 0..Len(c_txt) :
         c_conjtxt = SubSeq(c_txt, 1, n) \o ClassEuph \o c_rule.okuri

\* C3 witness: a kana word under a rule with only euphk set was rewritten
\* with no extra trim.
C3_Witness ==
  /\ c_pc = "done"
  /\ c_iskana
  /\ c_rule.euphr = << >>
  /\ c_rule.euphk # << >>
  /\ c_stem = c_rule.stem
  /\ c_rule.stem = 1

----------------------------------------------------------------------------
(* Properties of conjugate() *)

\* The smallest onum >= 1 for which ct['conjo'] has no row of the cell.
FirstAbsent(p, conj, neg, fml) ==
  CHOOSE i \in 1..(Cardinality(DOMAIN ct.conjo) + 1) :
    /\ <<p, conj, neg, fml, i>> \notin DOMAIN ct.conjo
    /\ \A j \in 1..(i - 1) : <<p, conj, neg, fml, j>> \in DOMAIN ct.conjo

\* A word was passed (not None) / passed with fewer than 2 characters.
Supplied(w) == ~w.none
TooShort(w) == ~w.none /\ Len(w.s) < 2

\* The text construct() returns for a word and the row of a key.
Conjugated(w, key) ==
  construct(w.s, ct.conjo[key].stem, ct.conjo[key].okuri,
            ct.conjo[key].euphr, ct.conjo[key].euphk).conjtxt

\* C4: the result has the key (pos, conj, neg, fml, i) exactly for i = 1..k,
\* k + 1 being the smallest onum with no rule, for every conjugation kind and
\* (neg, fml); rules after a gap are not produced and no ceiling cuts the
\* run short.
C4_VariantScan ==
  pc = "conjugated" =>
    DOMAIN conjs =
      UNION {{<<pos, conj, NegFml[c][1], NegFml[c][2], i>> :
                i \in 1..(FirstAbsent(pos, conj, NegFml[c][1], NegFml[c][2]) - 1)} :
             conj \in ct.conj, c \in 1..4}

\* C5: for every rule found, two supplied words give
\* kanji_conjugated + "【" + kana_conjugated + "】", also when one of the
\* conjugated texts is empty; one supplied word gives its conjugated text
\* alone.  (Words of at least 2 characters; shorter ones are C6 and C7.)
C5_DualDisplay ==
  pc = "conjugated" =>
    \A key \in DOMAIN conjs :
      /\ (Supplied(ktxt) /\ Supplied(rtxt) /\ ~TooShort(ktxt) /\ ~TooShort(rtxt))
           => conjs[key] = Conjugated(ktxt, key) \o <<LQuote>>
                           \o Conjugated(rtxt, key) \o <<RQuote>>
      /\ (Supplied(ktxt) /\ ~TooShort(ktxt) /\ ~Supplied(rtxt))
           => conjs[key] = Conjugated(ktxt, key)
      /\ (~Supplied(ktxt) /\ Supplied(rtxt) /\ ~TooShort(rtxt))
           => conjs[key] = Conjugated(rtxt, key)

\* C6: construct() on a 1-character word raises ValueError for every rule
\* and returns no text; a conjugate() call that reaches a rule with a
\* 1-character word raises and returns no dict.
C6_MinLengthGuard ==
  /\ (c_pc \in {"done", "raised"} /\ Len(c_txt) = 1)
       => (c_pc = "raised" /\ c_conjtxt = << >>)
  /\ ( /\ pc \in {"conjugated", "raised"}
       /\ \E conj \in ct.conj, c \in 1..4 :
            <<pos, conj, NegFml[c][1], NegFml[c][2], 1>> \in DOMAIN ct.conjo
       /\ \/ ~ktxt.none /\ Len(ktxt.s) = 1
          \/ ~rtxt.none /\ Len(rtxt.s) = 1 )
       => (pc = "raised" /\ conjs = EmptyDict)

\* C6 witness: a call with a valid kanji word and a 1-character kana word
\* reached a rule and raised.
C6_Witness ==
  /\ pc = "raised"
  /\ ~ktxt.none /\ Len(ktxt.s) = 2
  /\ ~rtxt.none /\ Len(rtxt.s) = 1
  /\ <<pos, 1, FALSE, FALSE, 1>> \in DOMAIN ct.conjo

\* C7: a call with a supplied word of fewer than 2 characters (the empty
\* string too, and also when the other word is valid), for a pos that has a
\* rule, raises ValueError; it never returns a dict.
C7_NoSilentSkip ==
  ( /\ pc \in {"conjugated", "raised"}
    /\ \E key \in DOMAIN ct.conjo : key[1] = pos
    /\ TooShort(ktxt) \/ TooShort(rtxt) )
    => pc = "raised"

----------------------------------------------------------------------------
(* Properties of combine_onums() *)

\* The note ids linked to a key in the table, in the table's order.
NotesOf(key) ==
  IF key \in DOMAIN ct.conjo_notes THEN ct.conjo_notes[key] ELSE << >>

\* A sequence of numbers in ascending order.
RECURSIVE Ascending(_)
Ascending(q) ==
  IF q = << >> THEN << >>
  ELSE LET i == CHOOSE x \in 1..Len(q) : \A y \in 1..Len(q) : q[x] <= q[y]
       IN  <<q[i]>> \o Ascending(SubSeq(q, 1, i - 1) \o SubSeq(q, i + 1, Len(q)))

\* "[" + ids, comma-joined + "]", or nothing for no ids
Bracketed(ids) ==
  IF ids = << >> THEN << >>
  ELSE <<91>> \o join(<<44>>, StrEach(ids)) \o <<93>>

CellOf(key) == <<key[1], key[2], key[3], key[4]>>

\* The onum values the input dict has for a cell.
CellOnums(cell) == {key[5] : key \in {x \in DOMAIN conjs : CellOf(x) = cell}}

\* The texts of a cell's variants in ascending onum order, " / " between them.
RECURSIVE JoinVariants(_, _, _)
JoinVariants(cell, onums, texts) ==
  IF onums = {} THEN << >>
  ELSE LET m == CHOOSE x \in onums : \A y \in onums : x <= y
           t == texts[<<cell[1], cell[2], cell[3], cell[4], m>>]
       IN  IF onums = {m} THEN t
           ELSE t \o <<32, 47, 32>> \o JoinVariants(cell, onums \ {m}, texts)

\* C8: each source entry whose key has note ids gets "[" + the ids in
\* ascending numeric order, comma-joined + "]" appended, whatever the order
\* of the rows of conjo_notes.csv; an entry without notes gets no suffix.
C8_NoteAnnotation ==
  pc = "combined" =>
    \A cell \in DOMAIN newconjs :
      newconjs[cell] =
        JoinVariants(cell, CellOnums(cell),
                     [key \in DOMAIN conjs |->
                        conjs[key] \o Bracketed(Ascending(NotesOf(key)))])

\* C9: no call changes the table bundle; in particular combine_onums() adds
\* no key to ct['conjo_notes'].
C9_BundleImmutable == [][ct' = ct]_vars

C11_MergeOrderIndependent ==
  (pc = "combined" /\ prev.some) =>
    /\ DOMAIN newconjs = DOMAIN prev.newconjs
    /\ \A cell \in DOMAIN newconjs : newconjs[cell] = prev.newconjs[cell]
    /\ allnotes = prev.allnotes

\* C11 witness: two calls on dicts of the same content in different
\* insertion orders, with a cell of two variants that both carry notes.
C11_Witness ==
  /\ pc = "combined"
  /\ prev.some
  /\ prev.keys # used
  /\ Elems(prev.keys) = Elems(used)
  /\ CellOnums(<<1, 1, FALSE, FALSE>>) = {1, 2}
  /\ conjs[<<1, 1, FALSE, FALSE, 1>>] # << >>
  /\ NotesOf(<<1, 1, FALSE, FALSE, 1>>) # << >>
  /\ NotesOf(<<1, 1, FALSE, FALSE, 2>>) # << >>

\* C12: the set of note ids returned is the union, over the keys of the
\* input dict, of the note ids the table links to the key: none missing and
\* no others (notes {3} and {5,6} on two variants of a cell give {3,5,6}; no
\* linked notes give the empty set).
C12_NoteIdUnion ==
  pc = "combined" =>
    allnotes = UNION {Elems(NotesOf(key)) : key \in DOMAIN conjs}

\* C12 witness: the two variants of a cell carry the notes {3} and {5,6} and
\* the call returned {3,5,6}.
C12_Witness ==
  /\ pc = "combined"
  /\ CellOnums(<<1, 1, FALSE, FALSE>>) = {1, 2}
  /\ Elems(NotesOf(<<1, 1, FALSE, FALSE, 1>>)) = {3}
  /\ Elems(NotesOf(<<1, 1, FALSE, FALSE, 2>>)) = {5, 6}
  /\ allnotes = {3, 5, 6}

====
